---------------------------- MODULE Spec2Model ----------------------------
(***************************************************************************)
(* The legacy fake-timers scheduler (class FakeTimers): a virtual clock,   *)
(* a map of timeouts and intervals, a sequence of ticks and a sequence of  *)
(* immediates, driven by the drain operations.                             *)
(*                                                                         *)
(* Every public method is one action.  A method is computed by operators   *)
(* over a record `s` holding the object's fields; the callbacks a drain    *)
(* invokes run inside the drain (they are synchronous), so what a callback *)
(* schedules or clears is part of the drain's action.  Each action leaves  *)
(* in `last` what the call did: the callbacks it invoked in order, the     *)
(* value it returned and the error it raised.                              *)
(*                                                                         *)
(* Numbers.  TLC's integers are 32 bits wide and neither MS_IN_A_YEAR      *)
(* (31536000000) nor 2^31, where Number(delay) | 0 wraps, fits.  Every     *)
(* number the model handles is y * 31536000000 + w * 2147483648 + m with   *)
(* y, w and m small, and it is written y * MS_IN_A_YEAR + w * TwoTo31 + m  *)
(* with the radices below: +, - and < on this writing are +, - and < on    *)
(* the numbers as long as no m reaches half of TwoTo31 and no              *)
(* w * TwoTo31 + m half of MS_IN_A_YEAR, which the bounds on the inputs    *)
(* guarantee.                                                              *)
(***************************************************************************)
EXTENDS Integers, Sequences, FiniteSets, TLC

(* ------------------------------ bounds -------------------------------- *)

\* the constructor's maxLoops argument (100000 when absent)
maxLoops == 3
\* the code under test registers work while _uuidCounter <= MaxId; callbacks
\* may register 2 * maxLoops + 1 more, what two drains that raise take
MaxId == 2
\* the virtual clock's millisecond part stays within -MaxNow..MaxNow
MaxNow == 3

(* ----------------------------- constants ------------------------------ *)

\* the radix standing for 31536000000 (see Numbers above)
MS_IN_A_YEAR == 1000

\* the radix standing for 2147483648, the 2^31 of ToInt32
TwoTo31 == 100

YearOf(x) == (x + (MS_IN_A_YEAR \div 2)) \div MS_IN_A_YEAR
MsOf(x) == x - YearOf(x) * MS_IN_A_YEAR

(* --------------------------- values of the host ----------------------- *)

Null == [k |-> "null", id |-> 0]
Undefined == [k |-> "undefined", id |-> 0]

\* timerConfig.idToRef: the handle the host hands out for id
idToRef(id) == [k |-> "ref", id |-> id]
\* timerConfig.refToId: the id of a handle, 0 (falsy) for anything else
refToId(ref) == IF ref.k = "ref" THEN ref.id ELSE 0

\* String(n) of a number
String(n) == ToString(n)

\* a delay argument: the number n/d, or undefined, or a non-numeric value
Num(n) == [k |-> "number", n |-> n, d |-> 1]
Frac(n, d) == [k |-> "number", n |-> n, d |-> d]
NoDelay == [k |-> "undefined", n |-> 0, d |-> 1]
NotANumber == [k |-> "nan", n |-> 0, d |-> 1]

\* Number(delay) | 0: NaN becomes 0, a number is truncated toward zero and
\* then taken modulo 2^32 into -2^31 .. 2^31 - 1 (the delays given to
\* setTimeout are below one year)
ToInt32(delay) ==
  IF delay.k # "number" THEN 0
  ELSE LET truncated == IF delay.n >= 0 THEN delay.n \div delay.d
                        ELSE 0 - ((0 - delay.n) \div delay.d)
       IN ((truncated + TwoTo31) % (2 * TwoTo31)) - TwoTo31

(* ------------------------------ callbacks ----------------------------- *)

\* What the code under test does when the scheduler invokes it:
\*   noop          returns
\*   throw         raises
\*   setTimeout    calls setTimeout(noop, arg)
\*   nextTick      calls process.nextTick(noop)
\*   setImmediate  calls setImmediate(noop)
\*   tickAndImmediate calls process.nextTick(noop), then setImmediate(noop)
\*   again         registers itself again with the primitive it came from
\*                 (a timeout with delay arg)
\*   clearSelfAt   counts its invocations in n and on the arg-th calls
\*                 clearInterval(ref), ref being the handle its own
\*                 registration returned
\*   clearTimer    calls clearTimeout(idToRef(arg))
\*   clearImmediate calls clearImmediate(String(arg))
Cb(act, arg) == [act |-> act, arg |-> arg, n |-> 0, ref |-> Null]
Noop == Cb("noop", 0)

(* ------------------------- the object's fields ------------------------ *)

VARIABLES
  _now,             \* virtual clock
  _uuidCounter,     \* next id
  _timers,          \* Map<string, Timer> in insertion order
  _ticks,           \* Array<Tick>
  _immediates,      \* Array<Tick>
  _cancelledTicks,  \* the _cancelledTicks objects: object |-> set of uuids
  _cancelledObj,    \* which of them this._cancelledTicks is
  _disposed,
  _global,          \* the host's bindings of the timer primitives
  realTicks,        \* closures queued on the real process.nextTick
  realImmediates,   \* closures queued on the real setImmediate
  calls,            \* how many times the one-shot callback registered as
                    \* uuid ran
  last              \* the last call: what it was and what it did

vars == <<_now, _uuidCounter, _timers, _ticks, _immediates, _cancelledTicks,
          _cancelledObj, _disposed, _global, realTicks, realImmediates,
          calls, last>>


(* --------------------- the fields as one record ----------------------- *)

\* the object as the operators below pass it along: its fields, and of the
\* call in progress the callbacks invoked so far (log), the exception that
\* is propagating (err) and the value the last primitive returned (ret)
Self ==
  [now |-> _now, uuidCounter |-> _uuidCounter, timers |-> _timers,
   ticks |-> _ticks, immediates |-> _immediates,
   cancelledTicks |-> _cancelledTicks, cancelledObj |-> _cancelledObj,
   disposed |-> _disposed, global |-> _global,
   realTicks |-> realTicks, realImmediates |-> realImmediates,
   calls |-> calls, log |-> <<>>, err |-> "none", ret |-> Undefined]

Throw(s, what) == [s EXCEPT !.err = what]

\* an entry of the log: the callback of `uuid` was invoked (kind tick,
\* immediate, timeout, interval, realTick, realImmediate) or a warning
\* was written (kind warn); for the callback of runWithRealTimers (kind
\* cb) uuid holds the host's bindings as the callback saw them.  For a timer, expiry is the expiry it fired at
\* and least says that no stored timer had a smaller expiry, nor an equal
\* one and an earlier place in the map.
Event(kind, uuid, s, expiry, act) ==
  [kind |-> kind, uuid |-> uuid, now |-> s.now, expiry |-> expiry, act |-> act,
   least |-> TRUE]

Logged(s, e) == [s EXCEPT !.log = Append(@, e)]

CallsOf(s, uuid) == IF uuid \in DOMAIN s.calls THEN s.calls[uuid] ELSE 0

(* --------------------------- fake primitives -------------------------- *)

\* _fakeClearTimer that deletes nothing
KeepTimer(s, timerRef) == [s EXCEPT !.ret = Undefined]

_fakeClearTimer(s, timerRef) ==
  LET uuid == refToId(timerRef) IN
  IF uuid # 0
  THEN [s EXCEPT !.timers = SelectSeq(@, LAMBDA t : t.uuid # String(uuid)),
                 !.ret = Undefined]
  ELSE [s EXCEPT !.ret = Undefined]

\* _fakeClearImmediate with the filter's test the other way round
ClearOtherImmediates(s, uuid) ==
  [s EXCEPT !.immediates = SelectSeq(@, LAMBDA i : i.uuid = uuid),
            !.ret = Undefined]

_fakeClearImmediate(s, uuid) ==
  [s EXCEPT !.immediates = SelectSeq(@, LAMBDA i : i.uuid # uuid),
            !.ret = Undefined]

_fakeNextTick(s, callback) ==
  IF s.disposed THEN [s EXCEPT !.ret = Undefined]
  ELSE LET uuid == String(s.uuidCounter) IN
    [s EXCEPT !.uuidCounter = @ + 1,
              !.ticks = Append(@, [uuid |-> uuid, callback |-> callback]),
              !.realTicks = Append(@, [uuid |-> uuid, callback |-> callback,
                                       cancelledTicks |-> s.cancelledObj]),
              !.ret = Undefined]

_fakeSetImmediate(s, callback) ==
  IF s.disposed THEN [s EXCEPT !.ret = Null]
  ELSE LET uuid == String(s.uuidCounter) IN
    [s EXCEPT !.uuidCounter = @ + 1,
              !.immediates = Append(@, [uuid |-> uuid, callback |-> callback]),
              !.realImmediates = Append(@, [uuid |-> uuid, callback |-> callback]),
              !.ret = [k |-> "uuid", id |-> s.uuidCounter]]

\* intervalDelay is stored as passed (only an absent one becomes 0); the
\* specifications pass it whole numbers
_fakeSetInterval(s, callback, intervalDelay) ==
  IF s.disposed THEN [s EXCEPT !.ret = Null]
  ELSE LET d == IF intervalDelay.k = "undefined" THEN 0 ELSE intervalDelay.n
           uuid == s.uuidCounter
       IN
    [s EXCEPT !.uuidCounter = @ + 1,
              !.timers = Append(@, [uuid |-> String(uuid), callback |-> callback,
                                    expiry |-> s.now + d, interval |-> <<d>>,
                                    type |-> "interval"]),
              !.ret = idToRef(uuid)]

\* _fakeSetTimeout without the test of _disposed
SetTimeoutWhenDisposed(s, callback, delay) ==
  LET d == ToInt32(delay)
      uuid == s.uuidCounter
  IN
  [s EXCEPT !.uuidCounter = @ + 1,
            !.timers = Append(@, [uuid |-> String(uuid), callback |-> callback,
                                  expiry |-> s.now + d, interval |-> <<>>,
                                  type |-> "timeout"]),
            !.ret = idToRef(uuid)]

_fakeSetTimeout(s, callback, delay) ==
  IF s.disposed THEN [s EXCEPT !.ret = Null]
  ELSE LET d == ToInt32(delay)
           uuid == s.uuidCounter
       IN
    [s EXCEPT !.uuidCounter = @ + 1,
              !.timers = Append(@, [uuid |-> String(uuid), callback |-> callback,
                                    expiry |-> s.now + d, interval |-> <<>>,
                                    type |-> "timeout"]),
              !.ret = idToRef(uuid)]

\* the frame callback is invoked with this._now, which no behaviour reads
_fakeRequestAnimationFrame(s, callback) ==
  _fakeSetTimeout(s, callback, Frac(1000, 60))

(* ------------------------ invoking a callback ------------------------- *)

\* the closure of the interval uuid counts one more invocation
Counted(s, uuid) ==
  [s EXCEPT !.timers = [k \in 1..Len(s.timers) |->
                          IF s.timers[k].uuid = uuid
                          THEN [s.timers[k] EXCEPT !.callback.n = @ + 1]
                          ELSE s.timers[k]]]

\* the callback registered as uuid through `kind` (tick, immediate, timeout,
\* interval) runs
RunCallback(s, cb, kind, uuid) ==
  LET s1 == IF kind = "interval"
            THEN (IF cb.act = "clearSelfAt" THEN Counted(s, uuid) ELSE s)
            ELSE [s EXCEPT !.calls = (uuid :> (CallsOf(s, uuid) + 1)) @@ @]
  IN
  CASE cb.act = "noop" -> s1
    [] cb.act = "throw" -> Throw(s1, "callback")
    [] cb.act = "setTimeout" -> _fakeSetTimeout(s1, Noop, Num(cb.arg))
    [] cb.act = "nextTick" -> _fakeNextTick(s1, Noop)
    [] cb.act = "setImmediate" -> _fakeSetImmediate(s1, Noop)
    [] cb.act = "tickAndImmediate" ->
         _fakeSetImmediate(_fakeNextTick(s1, Noop), Noop)
    [] cb.act = "again" ->
         CASE kind = "tick" -> _fakeNextTick(s1, cb)
           [] kind = "immediate" -> _fakeSetImmediate(s1, cb)
           [] OTHER -> _fakeSetTimeout(s1, cb, Num(cb.arg))
    [] cb.act = "clearSelfAt" ->
         IF cb.n + 1 = cb.arg THEN _fakeClearTimer(s1, cb.ref) ELSE s1
    [] cb.act = "clearTimer" -> _fakeClearTimer(s1, idToRef(cb.arg))
    [] cb.act = "clearImmediate" -> _fakeClearImmediate(s1, String(cb.arg))
    [] OTHER -> s1

(* ------------------------------- drains ------------------------------- *)

_checkFakeTimers(s) ==
  IF s.global.setTimeout # "fake"
  THEN Logged(s, Event("warn", "", s, 0, ""))
  ELSE s

\* TicksLoop that allows one iteration more
RECURSIVE TicksLoopOneMore(_, _)
TicksLoopOneMore(s, i) ==
  IF s.err # "none" THEN s
  ELSE IF i = maxLoops + 1 THEN Throw(s, "ticks")
  ELSE IF s.ticks = <<>> THEN s
  ELSE
    LET tick == Head(s.ticks)
        s1 == [s EXCEPT !.ticks = Tail(@)]
    IN
    IF tick.uuid \in s1.cancelledTicks[s1.cancelledObj]
    THEN TicksLoopOneMore(s1, i + 1)
    ELSE TicksLoopOneMore(
           RunCallback(
             Logged([s1 EXCEPT !.cancelledTicks[s1.cancelledObj] = @ \cup {tick.uuid}],
                    Event("tick", tick.uuid, s1, 0, tick.callback.act)),
             tick.callback, "tick", tick.uuid),
           i + 1)

RECURSIVE TicksLoop(_, _)
TicksLoop(s, i) ==
  IF s.err # "none" THEN s
  ELSE IF i = maxLoops THEN Throw(s, "ticks")
  ELSE IF s.ticks = <<>> THEN s
  ELSE
    LET tick == Head(s.ticks)
        s1 == [s EXCEPT !.ticks = Tail(@)]
    IN
    IF tick.uuid \in s1.cancelledTicks[s1.cancelledObj]
    THEN TicksLoop(s1, i + 1)
    ELSE TicksLoop(
           RunCallback(
             Logged([s1 EXCEPT !.cancelledTicks[s1.cancelledObj] = @ \cup {tick.uuid}],
                    Event("tick", tick.uuid, s1, 0, tick.callback.act)),
             tick.callback, "tick", tick.uuid),
           i + 1)

runAllTicks(s) == TicksLoop(_checkFakeTimers(s), 0)

\* _runImmediate without the finally: a callback that throws is not cleared
RunImmediateNoFinally(s, immediate) ==
  LET s1 == RunCallback(Logged(s, Event("immediate", immediate.uuid, s, 0, immediate.callback.act)),
                        immediate.callback, "immediate", immediate.uuid)
  IN IF s1.err # "none" THEN s1
     ELSE [_fakeClearImmediate(s1, immediate.uuid) EXCEPT !.ret = s1.ret]

\* try { immediate.callback() } finally { this._fakeClearImmediate(uuid) }
_runImmediate(s, immediate) ==
  LET s1 == RunCallback(Logged(s, Event("immediate", immediate.uuid, s, 0, immediate.callback.act)),
                        immediate.callback, "immediate", immediate.uuid)
  IN [_fakeClearImmediate(s1, immediate.uuid) EXCEPT !.ret = s1.ret]

\* ImmediatesLoop that drops what is left when it raises
RECURSIVE ImmediatesLoopDropping(_, _)
ImmediatesLoopDropping(s, i) ==
  IF s.err # "none" THEN s
  ELSE IF i = maxLoops THEN Throw([s EXCEPT !.immediates = <<>>], "immediates")
  ELSE IF s.immediates = <<>> THEN s
  ELSE ImmediatesLoopDropping(
         _runImmediate([s EXCEPT !.immediates = Tail(@)], Head(s.immediates)),
         i + 1)

RECURSIVE ImmediatesLoop(_, _)
ImmediatesLoop(s, i) ==
  IF s.err # "none" THEN s
  ELSE IF i = maxLoops THEN Throw(s, "immediates")
  ELSE IF s.immediates = <<>> THEN s
  ELSE ImmediatesLoop(
         _runImmediate([s EXCEPT !.immediates = Tail(@)], Head(s.immediates)),
         i + 1)

runAllImmediates(s) == ImmediatesLoop(_checkFakeTimers(s), 0)

\* NextHandleFrom that takes the last of the timers with the least expiry
RECURSIVE NextHandleFromLast(_, _, _, _)
NextHandleFromLast(timers, k, soonestTime, nextTimerHandle) ==
  IF k > Len(timers) THEN nextTimerHandle
  ELSE IF timers[k].expiry <= soonestTime
  THEN NextHandleFromLast(timers, k + 1, timers[k].expiry, timers[k].uuid)
  ELSE NextHandleFromLast(timers, k + 1, soonestTime, nextTimerHandle)

\* the first timer, in the map's order, whose expiry is below every expiry
\* before it and below MS_IN_A_YEAR; "" stands for null
RECURSIVE NextHandleFrom(_, _, _, _)
NextHandleFrom(timers, k, soonestTime, nextTimerHandle) ==
  IF k > Len(timers) THEN nextTimerHandle
  ELSE IF timers[k].expiry < soonestTime
  THEN NextHandleFrom(timers, k + 1, timers[k].expiry, timers[k].uuid)
  ELSE NextHandleFrom(timers, k + 1, soonestTime, nextTimerHandle)

_getNextTimerHandle(s) == NextHandleFrom(s.timers, 1, MS_IN_A_YEAR, "")

HasTimer(s, handle) == \E k \in 1..Len(s.timers) : s.timers[k].uuid = handle

TimerOf(s, handle) ==
  s.timers[CHOOSE k \in 1..Len(s.timers) : s.timers[k].uuid = handle]

\* a timeout is deleted, an interval gets its next expiry, and then the
\* callback runs
_runTimerHandle(s, timerHandle) ==
  IF ~HasTimer(s, timerHandle) THEN s
  ELSE
    LET timer == TimerOf(s, timerHandle)
        k == CHOOSE j \in 1..Len(s.timers) : s.timers[j].uuid = timerHandle
        fired == [Event(timer.type, timerHandle, s, timer.expiry, timer.callback.act)
                    EXCEPT !.least =
                      \A j \in 1..Len(s.timers) :
                        \/ timer.expiry < s.timers[j].expiry
                        \/ timer.expiry = s.timers[j].expiry /\ k <= j]
    IN
    CASE timer.type = "timeout" ->
           RunCallback(
             Logged([s EXCEPT !.timers = SelectSeq(@, LAMBDA t : t.uuid # timerHandle)],
                    fired),
             timer.callback, "timeout", timerHandle)
      [] timer.type = "interval" ->
           RunCallback(
             Logged([s EXCEPT !.timers[k].expiry =
                                 s.now + (IF timer.interval = <<>> THEN 0
                                          ELSE timer.interval[1])],
                    fired),
             timer.callback, "interval", timerHandle)
      [] OTHER -> Throw(s, "unexpected timer type")

\* TimersLoop that moves the clock to the expiry of the timer it runs
RECURSIVE TimersLoopAdvancing(_, _)
TimersLoopAdvancing(s, i) ==
  IF s.err # "none" THEN s
  ELSE IF i = maxLoops THEN Throw(s, "timers")
  ELSE
    LET nextTimerHandle == _getNextTimerHandle(s) IN
    IF nextTimerHandle = "" THEN s
    ELSE
      LET s1 == _runTimerHandle(
                  [s EXCEPT !.now = TimerOf(s, nextTimerHandle).expiry],
                  nextTimerHandle)
          s2 == IF s1.err = "none" /\ s1.immediates # <<>>
                THEN runAllImmediates(s1) ELSE s1
          s3 == IF s2.err = "none" /\ s2.ticks # <<>>
                THEN runAllTicks(s2) ELSE s2
      IN TimersLoopAdvancing(s3, i + 1)

RECURSIVE TimersLoop(_, _)
TimersLoop(s, i) ==
  IF s.err # "none" THEN s
  ELSE IF i = maxLoops THEN Throw(s, "timers")
  ELSE
    LET nextTimerHandle == _getNextTimerHandle(s) IN
    IF nextTimerHandle = "" THEN s
    ELSE
      LET s1 == _runTimerHandle(s, nextTimerHandle)
          s2 == IF s1.err = "none" /\ s1.immediates # <<>>
                THEN runAllImmediates(s1) ELSE s1
          s3 == IF s2.err = "none" /\ s2.ticks # <<>>
                THEN runAllTicks(s2) ELSE s2
      IN TimersLoop(s3, i + 1)

runAllTimers(s) ==
  LET s1 == runAllTicks(_checkFakeTimers(s))
      s2 == IF s1.err = "none" THEN runAllImmediates(s1) ELSE s1
  IN TimersLoop(s2, 0)

\* Array.prototype.sort by expiry (stable): insertion from the left
RECURSIVE InsertByExpiry(_, _)
InsertByExpiry(sorted, e) ==
  IF sorted = <<>> THEN <<e>>
  ELSE IF e.expiry < Head(sorted).expiry THEN <<e>> \o sorted
  ELSE <<Head(sorted)>> \o InsertByExpiry(Tail(sorted), e)

\* SortByExpiry that leaves the entries in the map's order
Unsorted(entries) == entries

RECURSIVE SortByExpiry(_)
SortByExpiry(entries) ==
  IF entries = <<>> THEN <<>>
  ELSE InsertByExpiry(SortByExpiry(SubSeq(entries, 1, Len(entries) - 1)),
                      entries[Len(entries)])

\* forEach over the array as it was when the loop began
RECURSIVE ForEachImmediate(_, _)
ForEachImmediate(s, array) ==
  IF s.err # "none" \/ array = <<>> THEN s
  ELSE ForEachImmediate(_runImmediate(s, Head(array)), Tail(array))

RECURSIVE ForEachTimer(_, _)
ForEachTimer(s, entries) ==
  IF s.err # "none" \/ entries = <<>> THEN s
  ELSE ForEachTimer(_runTimerHandle(s, Head(entries).uuid), Tail(entries))

\* runOnlyPendingTimers that takes the timer entries after the immediates ran
RunPendingLate(s) ==
  LET s1 == _checkFakeTimers(s)
      s2 == ForEachImmediate(s1, s1.immediates)
  IN ForEachTimer(s2, SortByExpiry(s2.timers))

runOnlyPendingTimers(s) ==
  LET timerEntries == s.timers
      s1 == _checkFakeTimers(s)
      s2 == ForEachImmediate(s1, s1.immediates)
  IN ForEachTimer(s2, SortByExpiry(timerEntries))

\* AdvanceLoop that allows one iteration more
RECURSIVE AdvanceLoopOneMore(_, _, _)
AdvanceLoopOneMore(s, msToRun, i) ==
  IF s.err # "none" THEN s
  ELSE IF i = maxLoops + 1 THEN Throw(s, "timers")
  ELSE
    LET timerHandle == _getNextTimerHandle(s) IN
    IF timerHandle = "" THEN s
    ELSE
      LET nextTimerExpiry == TimerOf(s, timerHandle).expiry IN
      IF s.now + msToRun < nextTimerExpiry
      THEN [s EXCEPT !.now = @ + msToRun]
      ELSE AdvanceLoopOneMore(
             _runTimerHandle([s EXCEPT !.now = nextTimerExpiry], timerHandle),
             msToRun - (nextTimerExpiry - s.now),
             i + 1)

\* AdvanceLoop with the time cursor moved the wrong way when it quits
RECURSIVE AdvanceLoopBackwards(_, _, _)
AdvanceLoopBackwards(s, msToRun, i) ==
  IF s.err # "none" THEN s
  ELSE IF i = maxLoops THEN Throw(s, "timers")
  ELSE
    LET timerHandle == _getNextTimerHandle(s) IN
    IF timerHandle = "" THEN s
    ELSE
      LET nextTimerExpiry == TimerOf(s, timerHandle).expiry IN
      IF s.now + msToRun < nextTimerExpiry
      THEN [s EXCEPT !.now = @ - msToRun]
      ELSE AdvanceLoopBackwards(
             _runTimerHandle([s EXCEPT !.now = nextTimerExpiry], timerHandle),
             msToRun - (nextTimerExpiry - s.now),
             i + 1)

RECURSIVE AdvanceLoop(_, _, _)
AdvanceLoop(s, msToRun, i) ==
  IF s.err # "none" THEN s
  ELSE IF i = maxLoops THEN Throw(s, "timers")
  ELSE
    LET timerHandle == _getNextTimerHandle(s) IN
    IF timerHandle = "" THEN s
    ELSE
      LET nextTimerExpiry == TimerOf(s, timerHandle).expiry IN
      IF s.now + msToRun < nextTimerExpiry
      THEN [s EXCEPT !.now = @ + msToRun]
      ELSE AdvanceLoop(
             _runTimerHandle([s EXCEPT !.now = nextTimerExpiry], timerHandle),
             msToRun - (nextTimerExpiry - s.now),
             i + 1)

\* advanceTimersByTime that drains the ticks and the immediates first, as
\* runAllTimers does
AdvanceAfterDraining(s, msToRun) ==
  LET s1 == runAllTicks(_checkFakeTimers(s))
      s2 == IF s1.err = "none" THEN runAllImmediates(s1) ELSE s1
  IN AdvanceLoop(s2, msToRun, 0)

advanceTimersByTime(s, msToRun) == AdvanceLoop(_checkFakeTimers(s), msToRun, 0)

\* the reduce over _timers.values(): the least expiry
MinExpiry(timers) ==
  CHOOSE e \in {timers[k].expiry : k \in 1..Len(timers)} :
    \A k \in 1..Len(timers) : e <= timers[k].expiry

RECURSIVE advanceTimersToNextTimer(_, _)
advanceTimersToNextTimer(s, steps) ==
  IF s.err # "none" \/ steps < 1 \/ s.timers = <<>> THEN s
  ELSE advanceTimersToNextTimer(
         advanceTimersByTime(s, MinExpiry(s.timers) - s.now), steps - 1)

(* ------------------------ lifecycle, installer ------------------------ *)

clearAllTimers(s) == [s EXCEPT !.immediates = <<>>, !.timers = <<>>]

dispose(s) == clearAllTimers([s EXCEPT !.disposed = TRUE])

\* reset that keeps the cancelled ticks it has
ResetKeepsCancelled(s) ==
  [s EXCEPT !.now = 0, !.ticks = <<>>, !.immediates = <<>>, !.timers = <<>>]

\* this._cancelledTicks = {} makes a new object; the closures queued on the
\* real nextTick keep the one they captured.  The new object is named by the
\* id counter: an object of that name, if any, was made by a reset with no
\* tick registered since, so no closure holds it.
reset(s) ==
  [s EXCEPT !.cancelledTicks = (s.uuidCounter :> {}) @@ @,
            !.cancelledObj = s.uuidCounter,
            !.now = 0, !.ticks = <<>>, !.immediates = <<>>, !.timers = <<>>]

\* the names probed with typeof before they are written
Probed == {"cancelAnimationFrame", "clearImmediate", "requestAnimationFrame",
           "setImmediate"}
Names == Probed \cup {"clearInterval", "clearTimeout", "setInterval",
                      "setTimeout", "nextTick"}

\* Install that writes every name, probed or not
InstallAll(s, api) == [s EXCEPT !.global = [n \in Names |-> api]]

Install(s, api) ==
  [s EXCEPT !.global = [n \in Names |->
                          IF n \in Probed /\ s.global[n] = "absent"
                          THEN "absent" ELSE api]]

useRealTimers(s) == Install(s, "real")

useFakeTimers(s) == Install(s, "fake")

\* the bindings saved and written back around cb
Saved == {"clearImmediate", "clearInterval", "clearTimeout", "nextTick",
          "setImmediate", "setInterval", "setTimeout"}

runWithRealTimers(s, cb) ==
  LET prev == s.global
      s1 == useRealTimers(s)
      s2 == Logged(s1, Event("cb", s1.global, s1, 0, cb.act))
      s3 == IF cb.act = "throw" THEN Throw(s2, "callback") ELSE s2
  IN [s3 EXCEPT !.global = [n \in Names |->
                              IF n \in Saved THEN prev[n] ELSE s3.global[n]]]

getTimerCount(s) ==
  [_checkFakeTimers(s) EXCEPT
     !.ret = [k |-> "number",
              id |-> Len(s.timers) + Len(s.immediates) + Len(s.ticks)]]

(* ------------------- the closures on the real primitives -------------- *)

\* RealTick without the test of the cancelled mark
RealTickAlways(s, t) ==
  RunCallback(
    Logged([s EXCEPT !.cancelledTicks[t.cancelledTicks] = @ \cup {t.uuid}],
           Event("realTick", t.uuid, s, 0, t.callback.act)),
    t.callback, "tick", t.uuid)

\* RealTick testing, as the closure of an immediate does, that the record
\* is still stored
RealTickIfStored(s, t) ==
  IF \/ t.uuid \in s.cancelledTicks[t.cancelledTicks]
     \/ ~\E k \in 1..Len(s.ticks) : s.ticks[k].uuid = t.uuid
  THEN s
  ELSE RunCallback(
         Logged([s EXCEPT !.cancelledTicks[t.cancelledTicks] = @ \cup {t.uuid}],
                Event("realTick", t.uuid, s, 0, t.callback.act)),
         t.callback, "tick", t.uuid)

\* the closure _fakeNextTick gave the real nextTick runs
RealTick(s, t) ==
  IF t.uuid \in s.cancelledTicks[t.cancelledTicks] THEN s
  ELSE RunCallback(
         Logged([s EXCEPT !.cancelledTicks[t.cancelledTicks] = @ \cup {t.uuid}],
                Event("realTick", t.uuid, s, 0, t.callback.act)),
         t.callback, "tick", t.uuid)

\* RealImmediate without the test that the record is still there
RealImmediateAlways(s, i) ==
  LET s1 == RunCallback(Logged(s, Event("realImmediate", i.uuid, s, 0, i.callback.act)),
                        i.callback, "immediate", i.uuid)
  IN [_fakeClearImmediate(s1, i.uuid) EXCEPT !.ret = s1.ret]

\* the closure _fakeSetImmediate gave the real setImmediate runs
RealImmediate(s, i) ==
  IF \E k \in 1..Len(s.immediates) : s.immediates[k].uuid = i.uuid
  THEN LET s1 == RunCallback(Logged(s, Event("realImmediate", i.uuid, s, 0, i.callback.act)),
                             i.callback, "immediate", i.uuid)
       IN [_fakeClearImmediate(s1, i.uuid) EXCEPT !.ret = s1.ret]
  ELSE s

(* ------------------------------ the actions --------------------------- *)

InBounds(s) ==
  /\ s.uuidCounter <= MaxId + 2 * maxLoops + 2
  /\ YearOf(s.now) \in 0..1
  /\ MsOf(s.now) \in (0 - MaxNow)..MaxNow

\* the registrations whose closure is still held somewhere: a callback's
\* invocation count lives as long as its closure
Live(s) ==
  {s.timers[k].uuid : k \in 1..Len(s.timers)}
    \cup {s.ticks[k].uuid : k \in 1..Len(s.ticks)}
    \cup {s.immediates[k].uuid : k \in 1..Len(s.immediates)}
    \cup {s.realTicks[k].uuid : k \in 1..Len(s.realTicks)}
    \cup {s.realImmediates[k].uuid : k \in 1..Len(s.realImmediates)}

\* the call `op` with argument `arg` ends in s
Commit(s, op, arg) ==
  /\ InBounds(s)
  /\ _now' = s.now
  /\ _uuidCounter' = s.uuidCounter
  /\ _timers' = s.timers
  /\ _ticks' = s.ticks
  /\ _immediates' = s.immediates
  /\ _cancelledTicks' = s.cancelledTicks
  /\ _cancelledObj' = s.cancelledObj
  /\ _disposed' = s.disposed
  /\ _global' = s.global
  /\ realTicks' = s.realTicks
  /\ realImmediates' = s.realImmediates
  /\ calls' = [u \in DOMAIN s.calls \cap Live(s) |-> s.calls[u]]
  /\ last' = [op |-> op, arg |-> arg, log |-> s.log, err |-> s.err, ret |-> s.ret]

\* const ref = setInterval(cb, d): a callback that clears itself holds ref
Capture(s) ==
  IF s.ret.k = "ref" /\ s.timers[Len(s.timers)].callback.act = "clearSelfAt"
  THEN [s EXCEPT !.timers[Len(s.timers)].callback.ref = s.ret]
  ELSE s

CanRegister == _uuidCounter <= MaxId

SetTimeout(cbs, delays) ==
  \E cb \in cbs, delay \in delays :
    CanRegister /\ Commit(Capture(_fakeSetTimeout(Self, cb, delay)), "setTimeout", delay)

SetInterval(cbs, delays) ==
  \E cb \in cbs, delay \in delays :
    CanRegister /\ Commit(Capture(_fakeSetInterval(Self, cb, delay)), "setInterval", delay)

SetImmediate(cbs) ==
  \E cb \in cbs : CanRegister /\ Commit(_fakeSetImmediate(Self, cb), "setImmediate", NoDelay)

NextTick(cbs) ==
  \E cb \in cbs : CanRegister /\ Commit(_fakeNextTick(Self, cb), "nextTick", NoDelay)

RequestAnimationFrame(cbs) ==
  \E cb \in cbs :
    CanRegister /\ Commit(_fakeRequestAnimationFrame(Self, cb), "requestAnimationFrame", NoDelay)

\* clearTimeout, clearInterval and cancelAnimationFrame are one function
ClearTimer(refs) ==
  \E ref \in refs : Commit(_fakeClearTimer(Self, ref), "clearTimer", Num(ref.id))

ClearImmediate(ids) ==
  \E id \in ids : Commit(_fakeClearImmediate(Self, String(id)), "clearImmediate", Num(id))

RunAllTicks == Commit(runAllTicks(Self), "runAllTicks", NoDelay)

RunAllImmediates == Commit(runAllImmediates(Self), "runAllImmediates", NoDelay)

RunAllTimers == Commit(runAllTimers(Self), "runAllTimers", NoDelay)

RunOnlyPendingTimers ==
  Commit(runOnlyPendingTimers(Self), "runOnlyPendingTimers", NoDelay)

AdvanceTimersByTime(amounts) ==
  \E ms \in amounts :
    Commit(advanceTimersByTime(Self, ms), "advanceTimersByTime", Num(ms))

AdvanceTimersToNextTimer(counts) ==
  \E steps \in counts :
    Commit(advanceTimersToNextTimer(Self, steps), "advanceTimersToNextTimer",
           Num(steps))

ClearAllTimers == Commit(clearAllTimers(Self), "clearAllTimers", NoDelay)

Reset == Commit(reset(Self), "reset", NoDelay)

Dispose == Commit(dispose(Self), "dispose", NoDelay)

UseFakeTimers == Commit(useFakeTimers(Self), "useFakeTimers", NoDelay)

UseRealTimers == Commit(useRealTimers(Self), "useRealTimers", NoDelay)

RunWithRealTimers(cbs) ==
  \E cb \in cbs : Commit(runWithRealTimers(Self, cb), "runWithRealTimers", NoDelay)

GetTimerCount == Commit(getTimerCount(Self), "getTimerCount", NoDelay)

\* the real nextTick queue runs its oldest closure
RealTickFires ==
  /\ realTicks # <<>>
  /\ Commit(RealTick([Self EXCEPT !.realTicks = Tail(@)], Head(realTicks)),
            "realTick", NoDelay)

\* the real immediate queue runs its oldest closure
RealImmediateFires ==
  /\ realImmediates # <<>>
  /\ Commit(RealImmediate([Self EXCEPT !.realImmediates = Tail(@)],
                          Head(realImmediates)),
            "realImmediate", NoDelay)

(* -------------------------- the specifications ------------------------ *)

\* the constructor: the fields it sets, then reset()
Init ==
  /\ _now = 0
  /\ _uuidCounter = 1
  /\ _timers = <<>>
  /\ _ticks = <<>>
  /\ _immediates = <<>>
  /\ _cancelledTicks = (1 :> {})
  /\ _cancelledObj = 1
  /\ _disposed = FALSE
  /\ _global = [n \in Names |-> "real"]
  /\ realTicks = <<>>
  /\ realImmediates = <<>>
  /\ calls = <<>>
  /\ last = [op |-> "constructor", arg |-> NoDelay, log |-> <<>>,
             err |-> "none", ret |-> Undefined]

(* The scheduler as a whole: every operation, the installer and the      *)
(* closures on the real primitives, with callbacks that return or        *)
(* schedule a timeout.                                                   *)
Refs == {idToRef(id) : id \in 1..MaxId}

Next ==
  \/ SetTimeout({Noop}, {Num(1), Num(2)})
  \/ SetInterval({Noop}, {Num(1)})
  \/ SetImmediate({Noop})
  \/ NextTick({Cb("setTimeout", 1)})
  \/ RequestAnimationFrame({Noop})
  \/ ClearTimer(Refs)
  \/ ClearImmediate(1..MaxId)
  \/ RunAllTicks
  \/ RunAllImmediates
  \/ RunAllTimers
  \/ RunOnlyPendingTimers
  \/ AdvanceTimersByTime({1, 2})
  \/ AdvanceTimersToNextTimer({1})
  \/ ClearAllTimers
  \/ Reset
  \/ Dispose
  \/ UseFakeTimers
  \/ UseRealTimers
  \/ RealTickFires
  \/ RealImmediateFires

Spec == Init /\ [][Next]_vars

(* Timers under every timer drain, with callbacks that return, schedule  *)
(* a timeout for now, or clear their own interval on the second run.     *)
NextTimers ==
  \/ SetTimeout({Noop, Cb("setTimeout", 0)}, {Num(0), Num(1), Num(2)})
  \/ SetInterval({Noop, Cb("clearSelfAt", 2)}, {Num(1), Num(2)})
  \/ ClearTimer(Refs)
  \/ RunAllTimers
  \/ RunOnlyPendingTimers
  \/ AdvanceTimersByTime({1, 2, 3})
  \/ AdvanceTimersToNextTimer({1, 2})
  \/ Reset

SpecTimers == Init /\ [][NextTimers]_vars

(* Timers a year away: delays and amounts of MS_IN_A_YEAR.               *)
NextYear ==
  \/ SetTimeout({Noop}, {Num(1)})
  \/ SetInterval({Noop}, {Num(1), Num(MS_IN_A_YEAR)})
  \/ ClearTimer(Refs)
  \/ RunAllTimers
  \/ RunOnlyPendingTimers
  \/ AdvanceTimersByTime({1, MS_IN_A_YEAR})
  \/ AdvanceTimersToNextTimer({1})

SpecYear == Init /\ [][NextYear]_vars

(* Callbacks that register themselves again each time they run.          *)
NextLoop ==
  \/ SetTimeout({Noop, Cb("again", 0), Cb("again", 1)}, {Num(0), Num(1)})
  \/ SetImmediate({Noop, Cb("again", 0)})
  \/ NextTick({Noop, Cb("again", 0)})
  \/ RunAllTicks
  \/ RunAllImmediates
  \/ RunAllTimers
  \/ AdvanceTimersByTime({1})

SpecLoop == Init /\ [][NextLoop]_vars

(* The lifecycle: registration of every kind, the three ways of wiping,   *)
(* and the count of outstanding work.                                     *)
NextLife ==
  \/ SetTimeout({Noop}, {Num(1)})
  \/ SetInterval({Noop}, {Num(1)})
  \/ SetImmediate({Noop})
  \/ NextTick({Noop})
  \/ RequestAnimationFrame({Noop})
  \/ ClearAllTimers
  \/ Reset
  \/ Dispose
  \/ GetTimerCount
  \/ RunAllTicks

SpecLife == Init /\ [][NextLife]_vars

(* Clearing: refs and ids that are stored, that were never issued, that   *)
(* have fired or were cleared, that belong to another container, and a    *)
(* ref that refToId maps to nothing.                                      *)
ClearRefs == {idToRef(id) : id \in 1..(MaxId + 1)} \cup {Null}

NextClear ==
  \/ SetTimeout({Noop}, {Num(1)})
  \/ SetInterval({Noop}, {Num(1)})
  \/ SetImmediate({Noop})
  \/ NextTick({Noop})
  \/ ClearTimer(ClearRefs)
  \/ ClearImmediate(0..(MaxId + 1))
  \/ RunOnlyPendingTimers
  \/ AdvanceTimersByTime({1})

SpecClear == Init /\ [][NextClear]_vars

(* Ticks, immediates and timers together: timer callbacks that schedule a *)
(* tick and an immediate, and the drains that run them.                   *)
NextOrder ==
  \/ SetTimeout({Noop, Cb("tickAndImmediate", 0)}, {Num(0), Num(1)})
  \/ SetImmediate({Noop})
  \/ NextTick({Noop})
  \/ RunAllTicks
  \/ RunAllImmediates
  \/ RunAllTimers

SpecOrder == Init /\ [][NextOrder]_vars

(* runOnlyPendingTimers among callbacks that schedule a timer or clear    *)
(* another one, intervals and pending immediates.                         *)
NextPending ==
  \/ SetTimeout({Noop, Cb("setTimeout", 0), Cb("clearTimer", MaxId)},
                {Num(0), Num(1)})
  \/ SetInterval({Noop}, {Num(0), Num(1)})
  \/ SetImmediate({Noop, Cb("setTimeout", 0)})
  \/ RunOnlyPendingTimers
  \/ AdvanceTimersByTime({1})

SpecPending == Init /\ [][NextPending]_vars

(* The installer on hosts that define or lack the immediate and the       *)
(* animation-frame family: code under test reaches a fake only through    *)
(* the host's name, when the fake is installed there.                     *)
Families == {{"setImmediate", "clearImmediate"},
             {"requestAnimationFrame", "cancelAnimationFrame"}}

InitHost ==
  /\ _now = 0
  /\ _uuidCounter = 1
  /\ _timers = <<>>
  /\ _ticks = <<>>
  /\ _immediates = <<>>
  /\ _cancelledTicks = (1 :> {})
  /\ _cancelledObj = 1
  /\ _disposed = FALSE
  /\ \E lacking \in SUBSET Families :
       _global = [n \in Names |->
                    IF \E f \in lacking : n \in f THEN "absent" ELSE "real"]
  /\ realTicks = <<>>
  /\ realImmediates = <<>>
  /\ calls = <<>>
  /\ last = [op |-> "constructor", arg |-> NoDelay, log |-> <<>>,
             err |-> "none", ret |-> Undefined]

NextInstall ==
  \/ UseFakeTimers
  \/ UseRealTimers
  \/ RunWithRealTimers({Noop, Cb("throw", 0)})
  \/ _global["setTimeout"] = "fake" /\ SetTimeout({Noop}, {Num(1)})
  \/ _global["setImmediate"] = "fake" /\ SetImmediate({Noop})
  \/ _global["nextTick"] = "fake" /\ NextTick({Noop})
  \/ _global["requestAnimationFrame"] = "fake" /\ RequestAnimationFrame({Noop})
  \/ _global["clearTimeout"] = "fake" /\ ClearTimer(Refs)
  \/ RunAllTimers

SpecInstall == InitHost /\ [][NextInstall]_vars

(* Callbacks that throw, in every kind of registration, the drains and    *)
(* the closures on the real primitives.                                   *)
NextThrow ==
  \/ SetTimeout({Noop, Cb("throw", 0)}, {Num(0), Num(1)})
  \/ SetInterval({Cb("throw", 0)}, {Num(1)})
  \/ SetImmediate({Noop, Cb("throw", 0)})
  \/ NextTick({Noop, Cb("throw", 0)})
  \/ RunAllTicks
  \/ RunAllImmediates
  \/ RunAllTimers
  \/ RunOnlyPendingTimers
  \/ AdvanceTimersByTime({1})
  \/ RealTickFires
  \/ RealImmediateFires

SpecThrow == Init /\ [][NextThrow]_vars

(* Delays of every shape: negative, fractional, absent, not a number.     *)
NextDelay ==
  \/ SetTimeout({Noop}, {Num(1), Num(0 - 1), Frac(3, 2), Frac(0 - 3, 2),
                         NoDelay, NotANumber})
  \/ SetInterval({Noop}, {Num(1), Num(0 - 1), NoDelay})
  \/ ClearTimer(Refs)
  \/ AdvanceTimersByTime({1})
  \/ RunOnlyPendingTimers

SpecDelay == Init /\ [][NextDelay]_vars

(* Ticks between the virtual drain and the real nextTick, with the wipes  *)
(* in between.                                                            *)
NextTicks ==
  \/ NextTick({Noop, Cb("nextTick", 0)})
  \/ SetTimeout({Cb("nextTick", 0)}, {Num(0)})
  \/ RunAllTicks
  \/ RunAllTimers
  \/ RealTickFires
  \/ ClearAllTimers
  \/ Reset

SpecTicks == Init /\ [][NextTicks]_vars

(* Immediates between the virtual drains and the real setImmediate, with  *)
(* clears by the test and by callbacks.                                   *)
NextImmediates ==
  \/ SetImmediate({Noop, Cb("setImmediate", 0), Cb("clearImmediate", MaxId)})
  \/ SetTimeout({Cb("setImmediate", 0)}, {Num(0)})
  \/ ClearImmediate(1..MaxId)
  \/ RunAllImmediates
  \/ RunAllTimers
  \/ RunOnlyPendingTimers
  \/ ClearAllTimers
  \/ RealImmediateFires

SpecImmediates == Init /\ [][NextImmediates]_vars

(* Ticks and immediates that the test may never drain, under a host whose  *)
(* real nextTick and setImmediate queues keep running: a closure that is   *)
(* queued on a real primitive is eventually run.                           *)
NextFallback ==
  \/ NextTick({Noop})
  \/ SetImmediate({Noop})
  \/ ClearImmediate(1..MaxId)
  \/ RunAllTicks
  \/ RunAllImmediates
  \/ ClearAllTimers
  \/ Reset
  \/ Dispose
  \/ UseFakeTimers
  \/ UseRealTimers
  \/ RealTickFires
  \/ RealImmediateFires

FairFallback == WF_vars(RealTickFires) /\ WF_vars(RealImmediateFires)

SpecFallback == Init /\ [][NextFallback]_vars /\ FairFallback

(* Work that schedules work of another kind: immediates that schedule a   *)
(* tick, ticks that schedule an immediate, timers that schedule either.   *)
NextExhaust ==
  \/ SetTimeout({Noop, Cb("nextTick", 0), Cb("setImmediate", 0)}, {Num(0), Num(1)})
  \/ SetImmediate({Noop, Cb("nextTick", 0)})
  \/ NextTick({Noop, Cb("setImmediate", 0)})
  \/ RunAllTicks
  \/ RunAllImmediates
  \/ RunAllTimers

SpecExhaust == Init /\ [][NextExhaust]_vars

(* Delays up to 2^31, the width of Number(delay) | 0.                     *)
NextWide ==
  \/ SetTimeout({Noop, Cb("setTimeout", 1)},
                {Num(0), Num(1), Num(TwoTo31 - 1), Num(TwoTo31)})
  \/ SetInterval({Noop}, {Num(0), Num(1)})
  \/ ClearTimer(Refs)
  \/ RunAllTimers
  \/ RunOnlyPendingTimers
  \/ AdvanceTimersByTime({0, 1, 2})
  \/ AdvanceTimersToNextTimer({1})
  \/ Reset

SpecWide == Init /\ [][NextWide]_vars

(* Advancing the clock with ticks and immediates stored, and timer        *)
(* callbacks that schedule a tick or an immediate or clear an immediate.  *)
NextAdvance ==
  \/ SetTimeout({Noop, Cb("nextTick", 0), Cb("setImmediate", 0),
                 Cb("clearImmediate", 1)}, {Num(0), Num(1)})
  \/ SetInterval({Cb("tickAndImmediate", 0)}, {Num(1)})
  \/ SetImmediate({Noop})
  \/ NextTick({Noop})
  \/ AdvanceTimersByTime({0, 1, 2})
  \/ AdvanceTimersToNextTimer({0, 1, 2})

SpecAdvance == Init /\ [][NextAdvance]_vars

(* ------------------------------- claims ------------------------------- *)

\* the timers the last call fired, in the order it fired them
TimerEvents(log) == SelectSeq(log, LAMBDA e : e.kind \in {"timeout", "interval"})

EventsOf(log, kinds) == SelectSeq(log, LAMBDA e : e.kind \in kinds)

\* the number String() wrote as uuid
IdOf(uuid) == CHOOSE n \in 1..(MaxId + 2 * maxLoops + 2) : String(n) = uuid

Stored(timers, uuid) == \E k \in 1..Len(timers) : timers[k].uuid = uuid

\* e does not come after f in the order of (expiry, id)
NotAfter(e, f) ==
  \/ e.expiry < f.expiry
  \/ e.expiry = f.expiry /\ IdOf(e.uuid) <= IdOf(f.uuid)

C4_AdvanceFiresTheWindow ==
  [][(last'.op = "advanceTimersByTime" /\ last'.err = "none")
     => LET target == _now + last'.arg.n
            fired == TimerEvents(last'.log)
        IN
        /\ \A a \in 1..Len(fired) :
             fired[a].expiry <= target /\ fired[a].now = fired[a].expiry
        /\ \A k \in 1..Len(_timers') : _timers'[k].expiry > target
    ]_vars

(* C5: an interval of length D > 0 whose next expiry is e, driven by       *)
(* advanceTimersByTime(ms) from time t, fires at e, e + D, ... up to       *)
(* t + ms and stays stored with the expiry one D after its last firing;    *)
(* an interval fires only while it is stored, never after it was cleared.  *)
C5_IntervalFiresEveryPeriod ==
  [][/\ \A i \in 1..Len(last'.log) :
          last'.log[i].kind = "interval" => Stored(_timers, last'.log[i].uuid)
     /\ (last'.op = "advanceTimersByTime" /\ last'.err = "none")
        => \A k \in 1..Len(_timers) :
             LET timer == _timers[k]
                 fires == SelectSeq(last'.log,
                            LAMBDA e : e.kind = "interval" /\ e.uuid = timer.uuid)
             IN
             (/\ timer.type = "interval"
              /\ timer.callback.act = "noop"
              /\ timer.interval[1] > 0)
             => /\ \A i \in 1..Len(fires) :
                     fires[i].now = timer.expiry + (i - 1) * timer.interval[1]
                /\ \E j \in 1..Len(_timers') :
                     /\ _timers'[j].uuid = timer.uuid
                     /\ _timers'[j].expiry =
                          timer.expiry + Len(fires) * timer.interval[1]
                     /\ _timers'[j].expiry > _now + last'.arg.n
    ]_vars

(* C6: an interval whose callback clears the interval's own ref in its     *)
(* n-th invocation is invoked by advanceTimersByTime no more than the      *)
(* invocations that remain up to the n-th; with the n-th it leaves the     *)
(* timer map, before it stays stored; and a call whose window reaches the  *)
(* n-th expiry and that returns normally makes all of them.                *)
C6_IntervalClearsItself ==
  [][last'.op = "advanceTimersByTime"
     => \A k \in 1..Len(_timers) :
          LET timer == _timers[k]
              cb == timer.callback
              left == cb.arg - cb.n
              fires == SelectSeq(last'.log,
                         LAMBDA e : e.kind = "interval" /\ e.uuid = timer.uuid)
          IN
          (timer.type = "interval" /\ cb.act = "clearSelfAt"
             /\ refToId(cb.ref) = IdOf(timer.uuid) /\ left > 0)
          => /\ Len(fires) <= left
             /\ Len(fires) = left => ~Stored(_timers', timer.uuid)
             /\ Len(fires) < left => Stored(_timers', timer.uuid)
             /\ (/\ last'.err = "none"
                 /\ timer.expiry + (left - 1) * timer.interval[1]
                      <= _now + last'.arg.n)
                => Len(fires) = left
    ]_vars

\* one advanceTimersByTime call has made the two invocations of an interval
\* that clears itself in the second, and the interval is gone
C6_Witness ==
  /\ last.op = "advanceTimersByTime"
  /\ \E a, b \in 1..Len(last.log) :
       /\ a < b
       /\ last.log[a].kind = "interval" /\ last.log[a].act = "clearSelfAt"
       /\ last.log[b].kind = "interval" /\ last.log[b].uuid = last.log[a].uuid
       /\ ~Stored(_timers, last.log[a].uuid)

AnyAgain(queue) == \E k \in 1..Len(queue) : queue[k].callback.act = "again"

(* C7: runAllTicks with a pending tick that registers itself again, none   *)
(* of the pending ticks cancelled, invokes exactly maxLoops tick callbacks *)
(* and raises the ticks error; runAllImmediates with such an immediate     *)
(* invokes exactly maxLoops immediates and raises the immediates error;    *)
(* runAllTimers with such a tick, immediate or timer raises one of the     *)
(* three errors and fires no more than maxLoops timers.                    *)
C7_DrainsRaiseAtMaxLoops ==
  [][/\ (/\ last'.op = "runAllTicks"
         /\ AnyAgain(_ticks)
         /\ \A k \in 1..Len(_ticks) :
              _ticks[k].uuid \notin _cancelledTicks[_cancelledObj])
        => /\ last'.err = "ticks"
           /\ Len(EventsOf(last'.log, {"tick"})) = maxLoops
     /\ (last'.op = "runAllImmediates" /\ AnyAgain(_immediates))
        => /\ last'.err = "immediates"
           /\ Len(EventsOf(last'.log, {"immediate"})) = maxLoops
     /\ (/\ last'.op = "runAllTimers"
         /\ AnyAgain(_ticks) \/ AnyAgain(_immediates) \/ AnyAgain(_timers))
        => /\ last'.err \in {"ticks", "immediates", "timers"}
           /\ Len(TimerEvents(last'.log)) <= maxLoops
    ]_vars

\* runAllTicks has raised after maxLoops invocations of ticks that register
\* themselves again
C7_Witness ==
  /\ last.op = "runAllTicks"
  /\ last.err = "ticks"
  /\ Len(EventsOf(last.log, {"tick"})) = maxLoops
  /\ \A i \in 1..Len(last.log) :
       last.log[i].kind = "tick" => last.log[i].act = "again"
  /\ AnyAgain(_ticks)

(* C8: once dispose() was called the scheduler stays disposed, setTimeout, *)
(* setInterval, setImmediate and requestAnimationFrame return null and     *)
(* nextTick undefined, and no call, a reset() and the callbacks of a drain *)
(* included, makes the timer map, the immediate sequence or the tick       *)
(* sequence longer.                                                        *)
C8_NothingGrowsAfterDispose ==
  [][_disposed
     => /\ _disposed'
        /\ Len(_timers') <= Len(_timers)
        /\ Len(_immediates') <= Len(_immediates)
        /\ Len(_ticks') <= Len(_ticks)
        /\ last'.op \in {"setTimeout", "setInterval", "setImmediate",
                         "requestAnimationFrame"} => last'.ret = Null
        /\ last'.op = "nextTick" => last'.ret = Undefined
    ]_vars

\* a disposed scheduler has run a tick whose callback called setTimeout
C8_Witness ==
  /\ _disposed
  /\ last.op \in {"runAllTicks", "runAllTimers"}
  /\ \E i \in 1..Len(last.log) :
       last.log[i].kind = "tick" /\ last.log[i].act = "setTimeout"
  /\ _timers = <<>>

(* C9: getTimerCount() called after dispose() returns 0.                   *)
C9_CountIsZeroAfterDispose ==
  (last.op = "getTimerCount" /\ _disposed) => last.ret.id = 0

(* C10: clearAllTimers() empties the timer map, the immediate sequence and *)
(* the tick sequence and leaves the clock and the cancelled ticks as they  *)
(* were.                                                                   *)
C10_ClearAllTimersEmptiesAll ==
  [][last'.op = "clearAllTimers"
     => /\ _timers' = <<>>
        /\ _immediates' = <<>>
        /\ _ticks' = <<>>
        /\ _now' = _now
        /\ _cancelledTicks' = _cancelledTicks
        /\ _cancelledObj' = _cancelledObj
    ]_vars

(* C11: reset() sets the clock to 0, empties the timer map, the immediate  *)
(* sequence and the tick sequence and leaves no tick cancelled; the        *)
(* disposed flag, the id counter and the host's bindings stay as they      *)
(* were.                                                                   *)
C11_ResetFrame ==
  [][last'.op = "reset"
     => /\ _now' = 0
        /\ _timers' = <<>>
        /\ _immediates' = <<>>
        /\ _ticks' = <<>>
        /\ _cancelledTicks'[_cancelledObj'] = {}
        /\ _disposed' = _disposed
        /\ _uuidCounter' = _uuidCounter
        /\ _global' = _global
    ]_vars

\* reset() was called on a disposed scheduler with fakes installed, after
\* ticks had run and been marked cancelled
C11_Witness ==
  /\ last.op = "reset"
  /\ _disposed
  /\ _uuidCounter > 1
  /\ _global.setTimeout = "fake"
  /\ \E o \in DOMAIN _cancelledTicks :
       o # _cancelledObj /\ _cancelledTicks[o] # {}

\* what C12 says a clear of nothing leaves alone
Queues == <<_timers, _immediates, _ticks, _now, _uuidCounter>>

(* C12: clearTimeout, clearInterval or cancelAnimationFrame with a ref     *)
(* whose id is not in the timer map (refToId may map it to nothing), and   *)
(* clearImmediate with an id that is not in the immediate sequence, leave  *)
(* the timer map, the immediate sequence, the tick sequence, the clock and *)
(* the id counter unchanged; a second clear of the same ref or id changes  *)
(* nothing.                                                                *)
C12_ClearOfNothing ==
  [][/\ (last'.op = "clearTimer" /\ ~Stored(_timers, String(last'.arg.n)))
        => Queues' = Queues
     /\ (last'.op = "clearImmediate" /\ ~Stored(_immediates, String(last'.arg.n)))
        => Queues' = Queues
     /\ last'.op = "clearTimer"
        => LET again == _fakeClearTimer(Self', idToRef(last'.arg.n)) IN
           <<again.timers, again.immediates, again.ticks, again.now,
             again.uuidCounter>> = Queues'
     /\ last'.op = "clearImmediate"
        => LET again == _fakeClearImmediate(Self', String(last'.arg.n)) IN
           <<again.timers, again.immediates, again.ticks, again.now,
             again.uuidCounter>> = Queues'
    ]_vars

\* clearTimeout was called with the id of a pending tick while a timer is
\* stored
C12_Witness ==
  /\ last.op = "clearTimer"
  /\ Stored(_ticks, String(last.arg.n))
  /\ _timers # <<>>

(* C13: runAllTimers leaves the clock as it was: now after the call is now *)
(* before it, every callback it invokes runs at that time, and a timer a   *)
(* callback schedules during the drain has expiry = that time + its delay. *)
C13_RunAllTimersKeepsClock ==
  [][last'.op = "runAllTimers"
     => /\ _now' = _now
        /\ \A i \in 1..Len(last'.log) : last'.log[i].now = _now
        /\ \A k \in 1..Len(_timers') :
             (/\ ~Stored(_timers, _timers'[k].uuid)
              /\ _timers'[k].callback.act = "again")
             => _timers'[k].expiry = _now + _timers'[k].callback.arg
    ]_vars

\* runAllTimers, called after the clock was advanced, has fired a timer
\* whose expiry is ahead of the clock, and the timer its callback scheduled
\* with delay 1 is stored
C13_Witness ==
  /\ last.op = "runAllTimers"
  /\ _now > 0
  /\ \E i \in 1..Len(last.log) :
       /\ last.log[i].kind = "timeout"
       /\ last.log[i].act = "again"
       /\ last.log[i].expiry > _now
  /\ \E k \in 1..Len(_timers) :
       _timers[k].callback = Cb("again", 1) /\ _timers[k].expiry = _now + 1

(* C14: runAllTimers invokes no immediate while a tick that was scheduled  *)
(* before that immediate is still pending: of the callbacks a timer        *)
(* callback schedules, the tick runs before the immediate.                 *)
C14_TicksBeforeImmediates ==
  last.op = "runAllTimers"
    => \A a, b \in 1..Len(last.log) :
         (/\ a < b
          /\ last.log[a].kind = "immediate"
          /\ last.log[b].kind = "tick")
         => IdOf(last.log[a].uuid) < IdOf(last.log[b].uuid)

(* C15: runOnlyPendingTimers fires only timers that were stored when it    *)
(* was called, each at most once; an interval it fires stays stored with   *)
(* expiry = now + interval unless a callback clears it; a timer that the   *)
(* callback of an earlier one cleared is not fired; and the immediates     *)
(* that were pending, and only those, run before any timer.                *)
C15_OnlyPendingTimers ==
  [][last'.op = "runOnlyPendingTimers"
     => LET log == last'.log IN
        /\ \A a \in 1..Len(log) :
             /\ log[a].kind \in {"timeout", "interval"}
                  => Stored(_timers, log[a].uuid)
             /\ log[a].kind = "immediate" => Stored(_immediates, log[a].uuid)
             /\ log[a].kind = "interval"
                  => \/ \E k \in 1..Len(_timers') :
                          /\ _timers'[k].uuid = log[a].uuid
                          /\ _timers'[k].expiry = _now + _timers'[k].interval[1]
                     \/ \E b \in 1..Len(log) :
                          /\ log[b].act = "clearTimer"
                          /\ String(MaxId) = log[a].uuid
        /\ \A a, b \in 1..Len(log) :
             a < b =>
               /\ log[a].uuid # log[b].uuid
               /\ ~(log[a].kind \in {"timeout", "interval"}
                      /\ log[b].kind = "immediate")
               /\ (log[a].kind = "timeout" /\ log[a].act = "clearTimer")
                    => log[b].uuid
                         # String(TimerOf(Self, log[a].uuid).callback.arg)
        /\ last'.err = "none"
             => \A k \in 1..Len(_immediates) :
                  \E a \in 1..Len(log) :
                    log[a].kind = "immediate" /\ log[a].uuid = _immediates[k].uuid
    ]_vars

\* runOnlyPendingTimers has run an immediate and then a timeout whose
\* callback scheduled a timer; that timer is due and still stored
C15_Witness ==
  /\ last.op = "runOnlyPendingTimers"
  /\ \E a, b \in 1..Len(last.log) :
       /\ a < b
       /\ last.log[a].kind = "immediate"
       /\ last.log[b].kind = "timeout"
       /\ last.log[b].act = "setTimeout"
       /\ \E k \in 1..Len(_timers) :
            /\ _timers[k].expiry = _now
            /\ IdOf(_timers[k].uuid) > IdOf(last.log[b].uuid)

(* C16: runWithRealTimers(cb) called while fakes are installed runs cb     *)
(* with every primitive the host defines bound to its original; when the   *)
(* call has returned, or has rethrown what cb threw, every host primitive  *)
(* has the binding it had before the call, and the clock, the timer map,   *)
(* the immediate sequence and the tick sequence are unchanged.             *)
C16_RunWithRealTimersRestores ==
  [][(last'.op = "runWithRealTimers" /\ _global["setTimeout"] = "fake")
     => /\ \E i \in 1..Len(last'.log) :
             /\ last'.log[i].kind = "cb"
             /\ \A n \in Names :
                  _global[n] # "absent" => last'.log[i].uuid[n] = "real"
             /\ last'.log[i].act = "throw" <=> last'.err = "callback"
        /\ _global' = _global
        /\ <<_now, _timers, _immediates, _ticks>>'
             = <<_now, _timers, _immediates, _ticks>>
    ]_vars

\* what the host had at construction: the original, or nothing
Original(n) == IF _global[n] = "absent" THEN "absent" ELSE "real"

(* C17: useRealTimers leaves every host primitive bound to the original,   *)
(* also after useFakeTimers; useFakeTimers binds every primitive the host  *)
(* defines to the fake; a name the host does not define is given no        *)
(* binding by any operation; and neither operation changes the clock, the  *)
(* timer map, the immediate sequence or the tick sequence.                 *)
C17_InstallerSwaps ==
  [][/\ \A n \in Names : _global'[n] = "absent" <=> _global[n] = "absent"
     /\ last'.op = "useRealTimers" => \A n \in Names : _global'[n] = Original(n)
     /\ last'.op = "useFakeTimers"
          => \A n \in Names : _global'[n] # "absent" => _global'[n] = "fake"
     /\ last'.op \in {"useRealTimers", "useFakeTimers"}
          => <<_now, _timers, _immediates, _ticks>>'
               = <<_now, _timers, _immediates, _ticks>>
    ]_vars

\* useRealTimers was called on a host without the immediate family while a
\* timer and a tick, scheduled through the installed fakes, are pending
C17_Witness ==
  /\ last.op = "useRealTimers"
  /\ _global["setImmediate"] = "absent"
  /\ _global["requestAnimationFrame"] = "real"
  /\ _timers # <<>>
  /\ _ticks # <<>>

Drains == {"runAllTicks", "runAllImmediates", "runAllTimers",
           "runOnlyPendingTimers", "advanceTimersByTime",
           "advanceTimersToNextTimer"}

\* the drain `op` with argument arg, run from s
Drained(s, op, arg) ==
  CASE op = "runAllTicks" -> runAllTicks(s)
    [] op = "runAllImmediates" -> runAllImmediates(s)
    [] op = "runAllTimers" -> runAllTimers(s)
    [] op = "runOnlyPendingTimers" -> runOnlyPendingTimers(s)
    [] op = "advanceTimersByTime" -> advanceTimersByTime(s, arg.n)
    [] op = "advanceTimersToNextTimer" -> advanceTimersToNextTimer(s, arg.n)

Warnings(log) == SelectSeq(log, LAMBDA e : e.kind = "warn")

Invocations(log) == SelectSeq(log, LAMBDA e : e.kind # "warn")

(* C18: a drain called while the host's setTimeout is not the fake writes  *)
(* a warning before anything else, and invokes the callbacks, raises and   *)
(* leaves the clock and the queues exactly as the same call does with the  *)
(* fakes installed; with the fake installed it writes no warning.          *)
C18_WarningWhenNotInstalled ==
  [][last'.op \in Drains
     => IF _global["setTimeout"] = "fake"
        THEN Warnings(last'.log) = <<>>
        ELSE LET installed == Drained(useFakeTimers(Self), last'.op, last'.arg) IN
             /\ last'.log # <<>>
             /\ last'.log[1].kind = "warn"
             /\ Invocations(last'.log) = installed.log
             /\ last'.err = installed.err
             /\ <<_now, _timers, _immediates, _ticks>>'
                  = <<installed.now, installed.timers, installed.immediates,
                      installed.ticks>>
    ]_vars

\* the callback of the registration uuid has not been invoked before the
\* call, and the call invokes it at the place i of its log only
InvokedFirstAt(i) ==
  /\ last'.log[i].uuid \notin DOMAIN calls
  /\ \A j \in 1..Len(last'.log) :
       (j # i /\ last'.log[j].kind \notin {"warn", "cb"})
         => last'.log[j].uuid # last'.log[i].uuid

(* C19: a callback that throws inside a drain is the last one the drain    *)
(* invokes and the drain raises what it threw; then a throwing immediate   *)
(* is not in the immediate sequence, a throwing timeout is not in the      *)
(* timer map, a throwing interval is stored with expiry = now + interval,  *)
(* a throwing tick is not in the tick sequence and is marked cancelled;    *)
(* and no callback of a tick, immediate or timeout is invoked twice.       *)
C19_ThrowLeavesConsistentState ==
  [][/\ last'.op \in Drains
        => LET log == last'.log IN
           /\ \A i \in 1..Len(log) :
                log[i].act = "throw"
                  => /\ i = Len(log)
                     /\ last'.err = "callback"
                     /\ log[i].kind = "immediate"
                          => ~Stored(_immediates', log[i].uuid)
                     /\ log[i].kind = "timeout"
                          => ~Stored(_timers', log[i].uuid)
                     /\ log[i].kind = "interval"
                          => \E k \in 1..Len(_timers') :
                               /\ _timers'[k].uuid = log[i].uuid
                               /\ _timers'[k].expiry
                                    = _now' + _timers'[k].interval[1]
                     /\ log[i].kind = "tick"
                          => /\ ~Stored(_ticks', log[i].uuid)
                             /\ log[i].uuid \in _cancelledTicks'[_cancelledObj']
           /\ last'.err = "callback"
                => log # <<>> /\ log[Len(log)].act = "throw"
     /\ \A i \in 1..Len(last'.log) :
          last'.log[i].kind \in {"tick", "realTick", "immediate",
                                 "realImmediate", "timeout"}
            => InvokedFirstAt(i)
    ]_vars

\* advanceTimersByTime has raised what the callback of an interval threw,
\* after it had invoked another callback
C19_Witness ==
  /\ last.op = "advanceTimersByTime"
  /\ last.err = "callback"
  /\ Len(Invocations(last.log)) >= 2
  /\ last.log[Len(last.log)].kind = "interval"

Uuids(queue) == {queue[k].uuid : k \in 1..Len(queue)}

RecursionErrors == {"ticks", "immediates", "timers"}

(* C20: when a drain raises the recursion-bound error, every tick,         *)
(* immediate and timeout that was stored before the call or registered     *)
(* during it, and that the call did not invoke, is stored after it.  A     *)
(* drain called next starts with the work that was left: runAllTicks and   *)
(* runAllImmediates invoke the head of their sequence first, and return    *)
(* normally with the sequence empty when fewer than maxLoops callbacks     *)
(* are left and none of them registers itself again.                       *)
C20_RaiseKeepsRemainingWork ==
  [][/\ (last'.op \in Drains /\ last'.err \in RecursionErrors)
        => Uuids(_timers') \cup Uuids(_ticks') \cup Uuids(_immediates')
             = ((Uuids(_timers) \cup Uuids(_ticks) \cup Uuids(_immediates))
                  \cup {String(n) : n \in _uuidCounter..(_uuidCounter' - 1)})
               \ {last'.log[i].uuid : i \in 1..Len(last'.log)}
     /\ (last.err \in RecursionErrors /\ last'.op = "runAllTicks" /\ _ticks # <<>>)
        => /\ Invocations(last'.log)[1].uuid = Head(_ticks).uuid
           /\ (~AnyAgain(_ticks) /\ Len(_ticks) < maxLoops)
                => /\ last'.err = "none"
                   /\ _ticks' = <<>>
                   /\ Len(Invocations(last'.log)) = Len(_ticks)
     /\ (/\ last.err \in RecursionErrors
         /\ last'.op = "runAllImmediates"
         /\ _immediates # <<>>)
        => /\ Invocations(last'.log)[1].uuid = Head(_immediates).uuid
           /\ (~AnyAgain(_immediates) /\ Len(_immediates) < maxLoops)
                => /\ last'.err = "none"
                   /\ _immediates' = <<>>
                   /\ Len(Invocations(last'.log)) = Len(_immediates)
    ]_vars

\* runAllTicks, called after a drain had raised and left a tick that a
\* callback registered, has invoked that tick first
C20_Witness ==
  /\ last.op = "runAllTicks"
  /\ Invocations(last.log) # <<>>
  /\ Invocations(last.log)[1].kind = "tick"
  /\ IdOf(Invocations(last.log)[1].uuid) > MaxId

\* the delay as C21 says it is coerced: truncated, and 0 when negative,
\* absent or not a number
Coerced(delay) == IF ToInt32(delay) < 0 THEN 0 ELSE ToInt32(delay)

(* C21: the timer that setTimeout or setInterval stores has expiry =        *)
(* now + d, where d >= 0 is the delay truncated to a whole number, 0 for a *)
(* negative, an absent or a non-numeric delay; an interval's stored        *)
(* interval is that d.                                                     *)
C21_DelayCoercedNonNegative ==
  [][(last'.op \in {"setTimeout", "setInterval"} /\ last'.ret.k = "ref")
     => LET timer == _timers'[Len(_timers')] IN
        /\ timer.uuid = String(last'.ret.id)
        /\ timer.expiry = _now + Coerced(last'.arg)
        /\ last'.op = "setInterval" => timer.interval = <<Coerced(last'.arg)>>
    ]_vars

(* C22: whatever the order of nextTick, runAllTicks, runAllTimers, the     *)
(* firing of the real nextTick, clearAllTimers and reset, a tick callback  *)
(* that the virtual drain or the real fallback invokes has not been        *)
(* invoked before, by either of them.                                      *)
C22_TickInvokedAtMostOnce ==
  [][\A i \in 1..Len(last'.log) :
       last'.log[i].kind \in {"tick", "realTick"} => InvokedFirstAt(i)
    ]_vars

\* the real nextTick has fired for a tick and skipped it, the virtual drain
\* having run it before a reset
C22_Witness ==
  /\ last.op = "realTick"
  /\ last.log = <<>>
  /\ \E o \in DOMAIN _cancelledTicks :
       o # _cancelledObj /\ _cancelledTicks[o] # {}

(* C23: the closure on the real setImmediate invokes the callback exactly  *)
(* when the record of its id is in the immediate sequence as it fires, and *)
(* the record is not there afterwards; whatever the order of the firings,  *)
(* runAllImmediates, runAllTimers, runOnlyPendingTimers, clearImmediate    *)
(* and clearAllTimers, an immediate callback that is invoked has not been  *)
(* invoked before.                                                         *)
C23_ImmediateInvokedAtMostOnce ==
  [][/\ last'.op = "realImmediate"
        => LET uuid == Head(realImmediates).uuid IN
           /\ Stored(_immediates, uuid)
                <=> \E i \in 1..Len(last'.log) :
                      /\ last'.log[i].kind = "realImmediate"
                      /\ last'.log[i].uuid = uuid
           /\ ~Stored(_immediates', uuid)
     /\ \A i \in 1..Len(last'.log) :
          last'.log[i].kind \in {"immediate", "realImmediate"}
            => InvokedFirstAt(i)
    ]_vars

\* the real setImmediate has fired for an immediate that runOnlyPendingTimers
\* or a drain had run, and has not invoked it, while another is pending
C23_Witness ==
  /\ last.op = "realImmediate"
  /\ last.log = <<>>
  /\ _immediates # <<>>
  /\ \E u \in DOMAIN calls : calls[u] = 1

\* the callback registered under uuid has not been invoked
NotInvoked(uuid) == uuid \notin DOMAIN calls \/ calls[uuid] = 0

\* the last call invoked the callback registered under uuid
InvokedNow(uuid) ==
  \E i \in 1..Len(last.log) :
    /\ last.log[i].kind \in {"tick", "realTick", "immediate", "realImmediate"}
    /\ last.log[i].uuid = uuid

\* the last call was clearImmediate(uuid)
CancelledNow(uuid) == last.op = "clearImmediate" /\ last.arg = Num(IdOf(uuid))

\* the closure for uuid is queued on the real setImmediate, its record is
\* no longer in the immediate sequence and its callback was never invoked
RemovedUnrun(uuid) ==
  /\ Stored(realImmediates, uuid)
  /\ ~Stored(_immediates, uuid)
  /\ NotInvoked(uuid)

(* C24: with real primitives that keep firing, a tick or an immediate that *)
(* is stored and has not been invoked is eventually invoked, by a drain or *)
(* by its closure on the real primitive, or (an immediate) is the argument *)
(* of a clearImmediate call; clearAllTimers, reset, dispose and installer  *)
(* swaps in between make no difference.                                    *)
C24_FallbackEventuallyInvokes ==
  \A id \in 1..MaxId :
    ((Stored(_ticks, String(id)) \/ Stored(_immediates, String(id)))
       /\ NotInvoked(String(id)))
      ~> (InvokedNow(String(id)) \/ CancelledNow(String(id)))

(* C24, amended: a stored tick that has not been invoked is eventually     *)
(* invoked whatever happens in between; a stored immediate is eventually   *)
(* invoked, or its record leaves the immediate sequence uninvoked before   *)
(* its closure on the real setImmediate has fired (clearImmediate,         *)
(* clearAllTimers, reset and dispose all remove it), and then the closure  *)
(* does not invoke it.                                                     *)
C24_TickAlwaysImmediateIfStored ==
  \A id \in 1..MaxId :
    /\ (Stored(_ticks, String(id)) /\ NotInvoked(String(id)))
         ~> InvokedNow(String(id))
    /\ Stored(_immediates, String(id))
         ~> (InvokedNow(String(id)) \/ RemovedUnrun(String(id)))
    /\ [](RemovedUnrun(String(id)) => [](~InvokedNow(String(id))))

\* the real nextTick has invoked a tick that reset had dropped
C24_Witness ==
  /\ last.op = "realTick"
  /\ Len(last.log) = 1
  /\ _ticks = <<>>
  /\ _cancelledObj > 1

\* the virtual times at which the timers of the log fired
FiringTimes(log) == {TimerEvents(log)[i].now : i \in 1..Len(TimerEvents(log))}

(* C25: advanceTimersToNextTimer(steps) with steps < 1 or with no timer     *)
(* stored changes nothing and invokes nothing.  Otherwise, when it returns  *)
(* normally, the first timer it fires fires at the least expiry over all    *)
(* stored timers, every timer fires at its own expiry, the clock ends at    *)
(* the last firing time with no stored timer due at or before it, the       *)
(* firing times are at most `steps`, and are fewer only when no timer is    *)
(* left.                                                                    *)
C25_AdvanceToNextTimer ==
  [][last'.op = "advanceTimersToNextTimer"
     => IF last'.arg.n < 1 \/ _timers = <<>>
        THEN /\ last'.log = <<>>
             /\ last'.err = "none"
             /\ UNCHANGED <<_now, _uuidCounter, _timers, _ticks, _immediates,
                            _cancelledTicks, _cancelledObj, _disposed, _global,
                            realTicks, realImmediates>>
        ELSE last'.err = "none"
             => LET fired == TimerEvents(last'.log) IN
                /\ fired # <<>>
                /\ fired[1].now = MinExpiry(_timers)
                /\ \A i \in 1..Len(fired) : fired[i].now = fired[i].expiry
                /\ _now' = fired[Len(fired)].now
                /\ \A k \in 1..Len(_timers') : _timers'[k].expiry > _now'
                /\ Cardinality(FiringTimes(last'.log)) <= last'.arg.n
                /\ Cardinality(FiringTimes(last'.log)) < last'.arg.n
                     => _timers' = <<>>
    ]_vars

\* the timer at place k is an interval of length zero that no stored
\* callback clears
ZeroInterval(timers, k) ==
  /\ timers[k].type = "interval"
  /\ timers[k].interval = <<0>>
  /\ \A j \in 1..Len(timers) :
       timers[j].callback.act = "clearTimer"
         => timers[j].callback.arg # IdOf(timers[k].uuid)

(* C26: advanceTimersByTime(ms), ms >= 0, called with an interval of       *)
(* length zero stored (and not cleared by a callback) ends: it raises the  *)
(* 'timers' recursion error after exactly maxLoops timer callbacks, the    *)
(* interval is still stored and its expiry is the clock's value.           *)
C26_ZeroIntervalRaises ==
  [][(/\ last'.op = "advanceTimersByTime"
      /\ last'.arg.n >= 0
      /\ \E k \in 1..Len(_timers) : ZeroInterval(_timers, k))
     => /\ last'.err = "timers"
        /\ Len(TimerEvents(last'.log)) = maxLoops
        /\ \A k \in 1..Len(_timers) :
             ZeroInterval(_timers, k)
               => \E j \in 1..Len(_timers') :
                    /\ _timers'[j].uuid = _timers[k].uuid
                    /\ _timers'[j].interval = <<0>>
                    /\ _timers'[j].expiry <= _now'
        /\ \E i \in 1..Len(last'.log), j \in 1..Len(_timers') :
             /\ last'.log[i].kind = "interval"
             /\ last'.log[i].uuid = _timers'[j].uuid
             /\ _timers'[j].interval = <<0>>
             /\ _timers'[j].expiry = _now'
    ]_vars

\* the call raised after a timeout and then a zero-length interval, twice
C26_Witness ==
  /\ last.op = "advanceTimersByTime"
  /\ last.err = "timers"
  /\ Len(EventsOf(last.log, {"timeout"})) = 1
  /\ Len(EventsOf(last.log, {"interval"})) = maxLoops - 1

(* C27: advanceTimersByTime(ms) with ms >= 0 that returns normally from a   *)
(* state with virtual time t leaves the clock at t + ms, whether or not     *)
(* timers are stored when it returns.                                       *)
C27_AdvanceReachesTarget ==
  [][(/\ last'.op = "advanceTimersByTime"
      /\ last'.arg.n >= 0
      /\ last'.err = "none")
     => _now' = _now + last'.arg.n]_vars

(* C28: a drain raises the recursion-bound error only with work of that    *)
(* kind still stored: when runAllTicks, runAllImmediates, runAllTimers or  *)
(* advanceTimersByTime has run the last item there was, it returns         *)
(* normally, also when that item was the maxLoops-th.                      *)
C28_RaisesOnlyWithWorkLeft ==
  [][last'.op \in {"runAllTicks", "runAllImmediates", "runAllTimers",
                   "advanceTimersByTime"}
     => /\ last'.err = "ticks" => _ticks' # <<>>
        /\ last'.err = "immediates" => _immediates' # <<>>
        /\ last'.err = "timers" => _timers' # <<>>
    ]_vars

(* C29: when runAllTimers returns normally no work is left: the tick       *)
(* sequence, the immediate sequence and the timer map are all empty, also  *)
(* when immediates schedule ticks, ticks schedule immediates, or timer     *)
(* callbacks schedule either.                                              *)
C29_RunAllTimersLeavesNothing ==
  [][(last'.op = "runAllTimers" /\ last'.err = "none")
     => /\ _ticks' = <<>>
        /\ _immediates' = <<>>
        /\ _timers' = <<>>
        /\ getTimerCount(Self').ret.id = 0
    ]_vars

\* event i of the log is the invocation of an immediate
ImmediateRunAt(log, i) == log[i].kind \in {"immediate", "realImmediate"}

(* C30: clearImmediate(id) removes the record of id, and an immediate that *)
(* is invoked is one that was stored when the call began or was registered *)
(* during it, so one cleared by an earlier call is never invoked; within   *)
(* one call, once the callback of an immediate has called                  *)
(* clearImmediate(MaxId), the immediate MaxId is not invoked afterwards,   *)
(* in runAllImmediates and in runOnlyPendingTimers alike.                  *)
C30_ClearedImmediateNeverRuns ==
  [][/\ last'.op = "clearImmediate"
        => ~Stored(_immediates', String(last'.arg.n))
     /\ \A i \in 1..Len(last'.log) :
          ImmediateRunAt(last'.log, i)
            => \/ Stored(_immediates, last'.log[i].uuid)
               \/ IdOf(last'.log[i].uuid) >= _uuidCounter
     /\ \A i, j \in 1..Len(last'.log) :
          (/\ i < j
           /\ ImmediateRunAt(last'.log, i)
           /\ last'.log[i].act = "clearImmediate"
           /\ ImmediateRunAt(last'.log, j))
            => last'.log[j].uuid # String(MaxId)
    ]_vars

(* C31: whenever a timer is stored, _getNextTimerHandle returns a stored   *)
(* timer, its expiry is the least of all stored expiries, which is the     *)
(* minimum advanceTimersToNextTimer computes, and no timer stored before   *)
(* it in the map has the same expiry.                                      *)
C31_SelectionIsTheMinimum ==
  _timers # <<>>
    => LET handle == _getNextTimerHandle(Self) IN
       /\ handle # ""
       /\ HasTimer(Self, handle)
       /\ TimerOf(Self, handle).expiry = MinExpiry(_timers)
       /\ \A k \in 1..Len(_timers) :
            _timers[k].expiry = MinExpiry(_timers)
              => IdOf(_timers[k].uuid) >= IdOf(handle)

(* C32: with delays and amounts that are whole numbers and not negative,   *)
(* no stored timer is overdue between operations: every stored timer has   *)
(* expiry >= now.                                                          *)
C32_NoTimerOverdue ==
  \A k \in 1..Len(_timers) : _timers[k].expiry >= _now

\* the acts of the timer callbacks the log invoked
TimerActs(log) == {TimerEvents(log)[i].act : i \in 1..Len(TimerEvents(log))}

\* queue without the records of the uuids in gone
Without(queue, gone) == SelectSeq(queue, LAMBDA r : r.uuid \notin gone)

(* C33: advanceTimersByTime and advanceTimersToNextTimer invoke no tick    *)
(* and no immediate.  The ticks stored before the call are the first ticks *)
(* stored after it, and the stored immediates stay in their order, less    *)
(* the one a fired timer callback cleared; what is stored beyond them was  *)
(* registered during the call, and nothing is when no fired timer callback *)
(* schedules a tick or an immediate.                                       *)
C33_AdvanceLeavesTicksAndImmediates ==
  [][last'.op \in {"advanceTimersByTime", "advanceTimersToNextTimer"}
     => LET acts == TimerActs(last'.log)
            cleared == IF "clearImmediate" \in acts THEN {String(1)} ELSE {}
            new == {String(n) : n \in _uuidCounter..(_uuidCounter' - 1)}
        IN
        /\ EventsOf(last'.log, {"tick", "realTick", "immediate", "realImmediate"})
             = <<>>
        /\ Without(_ticks', new) = _ticks
        /\ Without(_immediates', new) = Without(_immediates, cleared)
        /\ acts \cap {"nextTick", "tickAndImmediate"} = {} => _ticks' = _ticks
        /\ acts \cap {"setImmediate", "tickAndImmediate"} = {}
             => Uuids(_immediates') \subseteq Uuids(_immediates)
    ]_vars

\* a timer fired while a tick was stored and its callback scheduled a
\* second tick: both are stored after the call
C33_Witness ==
  /\ last.op \in {"advanceTimersByTime", "advanceTimersToNextTimer"}
  /\ "nextTick" \in TimerActs(last.log)
  /\ Len(_ticks) = 2

=============================================================================
